---- MODULE Spec2Model ----
(***************************************************************************)
(* Model of python-scripts/model/dynamic_model.py (DynamicModel) and of    *)
(* python-scripts/data/chen_example.py (ChenDataset).                      *)
(*                                                                         *)
(* A tensor of shape (batch, channels, length) is a sequence of channels,  *)
(* each a sequence of samples.  Every tensor operation of the code acts on *)
(* the batch axis element-wise, so one batch element is modelled.  Sample  *)
(* values are small naturals; positions are 1-based here and 0-based in    *)
(* the code (code index t is position t+1).                                *)
(***************************************************************************)
EXTENDS Integers, Sequences, FiniteSets, TLC

VARIABLES num_inputs, num_outputs, ar, io_delay, receptive_field,
          mode, m_mode, last_set,
          pc, path, u, y, u_delayed, y_sim, i, x, result,
          seq_len, ntotbatch, burnout, ds_state, ds_u, ds_y, item

vars == <<num_inputs, num_outputs, ar, io_delay, receptive_field,
          mode, m_mode, last_set,
          pc, path, u, y, u_delayed, y_sim, i, x, result,
          seq_len, ntotbatch, burnout, ds_state, ds_u, ds_y, item>>

cfgVars == <<num_inputs, num_outputs, ar, io_delay, receptive_field>>
modeVars == <<mode, m_mode, last_set>>
callVars == <<pc, path, u, y, u_delayed, y_sim, i, x, result>>
dsVars == <<seq_len, ntotbatch, burnout, ds_state, ds_u, ds_y, item>>

----------------------------------------------------------------------------
(* Bounds of the explored instances *)

MaxLen == 2
MaxCh == 2
MaxVal == 1
MaxRf == 2
MaxDelay == MaxLen + 1
MaxNegDelay == 1

MaxSeqLen == 5
MaxTotBatch == 3
MaxBurnout == 6

----------------------------------------------------------------------------
(* Tensor helpers (torch semantics) *)

Min(a, b) == IF a < b THEN a ELSE b
Max(a, b) == IF a > b THEN a ELSE b

\* length of the last axis
Width(t) == IF Len(t) = 0 THEN 0 ELSE Len(t[1])

\* torch.zeros((batch, c, n)) for n >= 0
Zeros(c, n) == [ch \in 1..c |-> IF n <= 0 THEN <<>> ELSE [t \in 1..n |-> 0]]

\* Python index normalisation of a slice bound k for a sequence of length n
PyBound(k, n) == IF k < 0 THEN Max(k + n, 0) ELSE Min(k, n)

\* s[start:stop] on a Python sequence (0-based, stop exclusive)
PySlice(s, start, stop) ==
    SubSeq(s, PyBound(start, Len(s)) + 1, PyBound(stop, Len(s)))

\* t[:, :, start:stop]
SliceT(t, start, stop) == [ch \in 1..Len(t) |-> PySlice(t[ch], start, stop)]

\* t[:, :, :stop]
SliceTo(t, stop) == SliceT(t, 0, stop)

\* t[:, :, start:]
SliceFrom(t, start) == SliceT(t, start, Width(t))

\* F.pad(t, [left, 0]) with left >= 0
PadLeft(t, left) ==
    [ch \in 1..Len(t) |->
        (IF left <= 0 THEN <<>> ELSE [k \in 1..left |-> 0]) \o t[ch]]

\* torch.cat((a, b), -1)
CatTime(a, b) == [ch \in 1..Len(a) |-> a[ch] \o b[ch]]

\* torch.cat((a, b), 1); the caller checks that the other axes agree
CatChannel(a, b) == a \o b

----------------------------------------------------------------------------
(* RunMode *)

ONE_STEP_AHEAD == "ONE_STEP_AHEAD"
FREE_RUN_SIMULATION == "FREE_RUN_SIMULATION"
\* a value that is neither member of RunMode
OTHER_MODE == "OTHER"
ModeArgs == {ONE_STEP_AHEAD, FREE_RUN_SIMULATION, OTHER_MODE}

----------------------------------------------------------------------------
(* DynamicModel.num_model_inputs *)

num_model_inputs == IF ar THEN num_inputs + num_outputs ELSE num_inputs

----------------------------------------------------------------------------
(* The Predictor self.m: an opaque deterministic map from a feature        *)
(* sequence to an output sequence of the same length, with a receptive     *)
(* field: output step t is a function of the rf feature steps ending at t  *)
(* (zero before the start).  It rejects a feature sequence whose channel   *)
(* count is not the one it was built with.                                 *)

Modulus == 3

RECURSIVE SumTo(_, _)
SumTo(f, n) == IF n = 0 THEN 0 ELSE f[n] + SumTo(f, n - 1)

\* a weight in 1..Modulus-1, never zero
Weight(c, k, o) == 1 + ((c + k + o) % (Modulus - 1))

PredictAt(xv, o, t) ==
    LET rf == receptive_field
        tap(c, k) == IF t - k >= 1 THEN Weight(c, k, o) * xv[c][t - k] ELSE 0
        perCh == [c \in 1..Len(xv) |->
                    SumTo([k1 \in 1..rf |-> tap(c, k1 - 1)], rf)]
    IN  (o + SumTo(perCh, Len(xv))) % Modulus

Predict(xv) ==
    IF Len(xv) # num_model_inputs
    THEN [ok |-> FALSE, val |-> <<>>]
    ELSE [ok |-> TRUE,
          val |-> [o \in 1..num_outputs |->
                     IF Width(xv) = 0 THEN <<>>
                     ELSE [t \in 1..Width(xv) |-> PredictAt(xv, o, t)]]]

----------------------------------------------------------------------------
(* DynamicModel._get_u_delayed *)

\* variant: the shift goes the wrong way (samples advanced, zeros appended)
GetUDelayed_Advance(uu, d) ==
    LET n_inputs == Len(uu) IN
    IF d > 0
    THEN [st |-> "ok",
          val |-> CatTime(SliceFrom(uu, d), Zeros(n_inputs, Min(d, Width(uu))))]
    ELSE IF d < 0
    THEN [st |-> "raised", val |-> <<>>]
    ELSE [st |-> "ok", val |-> uu]

GetUDelayed(uu, d) ==
    LET n_inputs == Len(uu) IN
    IF d > 0
    THEN [st |-> "ok", val |-> CatTime(Zeros(n_inputs, d), SliceTo(uu, -d))]
    ELSE IF d < 0
    \* torch.zeros with the negative size io_delay raises
    THEN [st |-> "raised", val |-> <<>>]
    ELSE [st |-> "ok", val |-> uu]

NoDelay == [st |-> "none", val |-> <<>>]
NoX == [st |-> "none", val |-> <<>>]
NoRef == [present |-> FALSE, val |-> <<>>]

----------------------------------------------------------------------------
(* DynamicModel.one_step_ahead *)

\* variant: the reference is concatenated without the one-step shift
OneStepAhead_NoShift(uu, yy) ==
    LET ud == GetUDelayed(uu, io_delay) IN
    IF ud.st = "raised"
    THEN [st |-> "raised", val |-> <<>>, ud |-> ud, x |-> NoX]
    ELSE IF ar /\ ~yy.present
    THEN [st |-> "raised", val |-> <<>>, ud |-> ud, x |-> NoX]
    ELSE IF ar /\ Width(ud.val) # Width(yy.val)
    THEN [st |-> "raised", val |-> <<>>, ud |-> ud, x |-> NoX]
    ELSE LET y_delayed == yy.val
             xv == IF ar THEN CatChannel(ud.val, y_delayed) ELSE ud.val
             p == Predict(xv)
         IN  [st |-> IF p.ok THEN "ok" ELSE "raised",
              val |-> p.val, ud |-> ud,
              x |-> [st |-> "passed", val |-> xv]]

OneStepAhead(uu, yy) ==
    LET ud == GetUDelayed(uu, io_delay) IN
    IF ud.st = "raised"
    THEN [st |-> "raised", val |-> <<>>, ud |-> ud, x |-> NoX]
    ELSE IF ar /\ ~yy.present
    \* y is None: y[:, :, :-1] raises
    THEN [st |-> "raised", val |-> <<>>, ud |-> ud, x |-> NoX]
    ELSE IF ar /\ Width(ud.val) # Width(yy.val)
    \* torch.cat along the channel axis needs equal lengths
    THEN [st |-> "raised", val |-> <<>>, ud |-> ud, x |-> NoX]
    ELSE LET y_delayed == PadLeft(SliceTo(yy.val, -1), 1)
             xv == IF ar THEN CatChannel(ud.val, y_delayed) ELSE ud.val
             p == Predict(xv)
         IN  [st |-> IF p.ok THEN "ok" ELSE "raised",
              val |-> p.val, ud |-> ud,
              x |-> [st |-> "passed", val |-> xv]]

----------------------------------------------------------------------------
(* DynamicModel.free_run_simulation: one iteration of the loop *)

\* variant: the input window is not one step ahead of the output window
FreeRunStep_SameWindow(uu, yy, udv, ys, ii) ==
    LET rf == receptive_field
        y_in == IF ii < rf
                THEN PadLeft(SliceTo(ys, ii), rf - ii)
                ELSE SliceT(ys, ii - rf, ii)
        u_in == IF ii < rf
                THEN PadLeft(SliceTo(udv, ii), rf - ii)
                ELSE SliceT(udv, ii - rf, ii)
        xv == CatChannel(u_in, y_in)
        p == Predict(xv)
        w == Width(p.val)
        assignable == num_outputs = Len(ys) \/ num_outputs = 1
        newYs == [ch \in 1..Len(ys) |->
                    [ys[ch] EXCEPT ![ii + 1] =
                        p.val[IF num_outputs = 1 THEN 1 ELSE ch][w]]]
    IN  IF Width(u_in) # Width(y_in)
        THEN [st |-> "raised", ys |-> ys, x |-> NoX]
        ELSE IF ~p.ok \/ w = 0 \/ ~assignable
        THEN [st |-> "raised", ys |-> ys, x |-> [st |-> "passed", val |-> xv]]
        ELSE [st |-> "ok", ys |-> newYs, x |-> [st |-> "passed", val |-> xv]]

\* variant: the output context is taken from the reference when there is one
FreeRunStep_TeacherForced(uu, yy, udv, ys, ii) ==
    LET rf == receptive_field
        src == IF yy.present /\ Len(yy.val) = Len(ys) THEN yy.val ELSE ys
        y_in == IF ii < rf
                THEN PadLeft(SliceTo(src, ii), rf - ii)
                ELSE SliceT(src, ii - rf, ii)
        u_in == IF ii < rf
                THEN PadLeft(SliceTo(udv, ii + 1), rf - ii - 1)
                ELSE SliceT(udv, ii - rf + 1, ii + 1)
        xv == CatChannel(u_in, y_in)
        p == Predict(xv)
        w == Width(p.val)
        assignable == num_outputs = Len(ys) \/ num_outputs = 1
        newYs == [ch \in 1..Len(ys) |->
                    [ys[ch] EXCEPT ![ii + 1] =
                        p.val[IF num_outputs = 1 THEN 1 ELSE ch][w]]]
    IN  IF Width(u_in) # Width(y_in)
        THEN [st |-> "raised", ys |-> ys, x |-> NoX]
        ELSE IF ~p.ok \/ w = 0 \/ ~assignable
        THEN [st |-> "raised", ys |-> ys, x |-> [st |-> "passed", val |-> xv]]
        ELSE [st |-> "ok", ys |-> newYs, x |-> [st |-> "passed", val |-> xv]]

FreeRunStep(uu, yy, udv, ys, ii) ==
    LET rf == receptive_field
        y_in == IF ii < rf
                THEN PadLeft(SliceTo(ys, ii), rf - ii)
                ELSE SliceT(ys, ii - rf, ii)
        u_in == IF ii < rf
                THEN PadLeft(SliceTo(udv, ii + 1), rf - ii - 1)
                ELSE SliceT(udv, ii - rf + 1, ii + 1)
        xv == CatChannel(u_in, y_in)
        p == Predict(xv)
        w == Width(p.val)
        \* y_sim[:, :, i] = self.m(x)[:, :, -1], broadcasting one channel
        assignable == num_outputs = Len(ys) \/ num_outputs = 1
        newYs == [ch \in 1..Len(ys) |->
                    [ys[ch] EXCEPT ![ii + 1] =
                        p.val[IF num_outputs = 1 THEN 1 ELSE ch][w]]]
    IN  IF Width(u_in) # Width(y_in)
        THEN [st |-> "raised", ys |-> ys, x |-> NoX]
        ELSE IF ~p.ok \/ w = 0 \/ ~assignable
        THEN [st |-> "raised", ys |-> ys, x |-> [st |-> "passed", val |-> xv]]
        ELSE [st |-> "ok", ys |-> newYs, x |-> [st |-> "passed", val |-> xv]]

\* the 0-based positions of y_sim that iteration ii reads
\* (y_sim[:, :, :i] when i < rf, y_sim[:, :, i-rf:i] otherwise)
YSimReadIdx(ys, ii) ==
    LET rf == receptive_field
        n == Width(ys)
    IN  IF ii < rf
        THEN PyBound(0, n)..(PyBound(ii, n) - 1)
        ELSE PyBound(ii - rf, n)..(PyBound(ii, n) - 1)

RECURSIVE FreeRunLoop(_, _, _, _, _)
FreeRunLoop(uu, yy, udv, ys, ii) ==
    IF ii >= Width(uu)
    THEN [st |-> "ok", val |-> ys]
    ELSE LET r == FreeRunStep(uu, yy, udv, ys, ii) IN
         IF r.st = "raised"
         THEN [st |-> "raised", val |-> <<>>]
         ELSE FreeRunLoop(uu, yy, udv, r.ys, ii + 1)

\* the whole call, as a function of its arguments
FreeRunSimulation(uu, yy) ==
    IF ar
    THEN LET ud == GetUDelayed(uu, io_delay) IN
         IF ud.st = "raised"
         THEN [st |-> "raised", val |-> <<>>]
         ELSE FreeRunLoop(uu, yy, ud.val, Zeros(Len(uu), Width(uu)), 0)
    ELSE LET r == OneStepAhead(uu, yy) IN [st |-> r.st, val |-> r.val]

----------------------------------------------------------------------------
(* Arguments of an inference call *)

Samples == 0..MaxVal

\* the caller's sequences: one free channel, the others derived from it so
\* that no two channels of a tensor carry the same samples
ChannelOf(base, ch) ==
    [t \in 1..Len(base) |-> (base[t] + ch - 1) % (MaxVal + 1)]

TensorOf(base, c) == [ch \in 1..c |-> ChannelOf(base, ch)]

\* sample sequences of length n: all zero, or zero but for one sample
Bases(n) ==
    {[t \in 1..n |-> 0]} \cup
    {[t \in 1..n |-> IF t = pos THEN v ELSE 0] : pos \in 1..n, v \in Samples \ {0}}

InputArgs == {TensorOf(b, num_inputs) : b \in UNION {Bases(n) : n \in 1..MaxLen}}

\* a reference of the same length as the input, or None
RefArgs(uu) ==
    {[present |-> TRUE, val |-> TensorOf(b, num_outputs)] : b \in Bases(Width(uu))}
        \cup {NoRef}

----------------------------------------------------------------------------
(* State after DynamicModel.__init__ ; the dataset is not involved *)

DsIdle ==
    /\ seq_len = 0 /\ ntotbatch = 0 /\ burnout = 0
    /\ ds_state = "unused" /\ ds_u = <<>> /\ ds_y = <<>>
    /\ item = [st |-> "none", u |-> <<>>, y |-> <<>>]

CallIdle ==
    /\ pc = "idle" /\ path = "none"
    /\ u = <<>> /\ y = NoRef
    /\ u_delayed = NoDelay /\ y_sim = <<>> /\ i = 0
    /\ x = NoX /\ result = <<>>

Init ==
    /\ num_inputs \in 1..MaxCh
    /\ num_outputs \in 1..MaxCh
    /\ ar \in BOOLEAN
    /\ io_delay \in (-MaxNegDelay)..MaxDelay
    /\ receptive_field \in 0..MaxRf
    /\ mode = ONE_STEP_AHEAD
    /\ m_mode = ONE_STEP_AHEAD
    /\ last_set = ONE_STEP_AHEAD
    /\ CallIdle
    /\ DsIdle

----------------------------------------------------------------------------
(* DynamicModel.set_mode *)

\* variant: the Predictor's flag is not updated
SetMode_NoPropagate(md) ==
    /\ pc = "idle"
    /\ mode' = md
    /\ m_mode' = m_mode
    /\ last_set' = md
    /\ UNCHANGED <<cfgVars, callVars, dsVars>>

SetMode(md) ==
    /\ pc = "idle"
    /\ mode' = md
    /\ m_mode' = md
    /\ last_set' = md
    /\ UNCHANGED <<cfgVars, callVars, dsVars>>

(* DynamicModel.forward *)

\* the one-step-ahead path, taken by forward or by a non-autoregressive
\* free run
RunOneStepAhead(uu, yy) ==
    LET r == OneStepAhead(uu, yy) IN
    /\ u_delayed' = r.ud
    /\ x' = r.x
    /\ result' = r.val
    /\ pc' = IF r.st = "ok" THEN "returned" ELSE "raised"
    /\ UNCHANGED <<y_sim, i>>

\* free_run_simulation up to the start of the loop
BeginFreeRun(uu, yy) ==
    IF ar
    THEN LET ud == GetUDelayed(uu, io_delay) IN
         /\ y_sim' = Zeros(Len(uu), Width(uu))
         /\ u_delayed' = ud
         /\ i' = 0
         /\ pc' = IF ud.st = "ok" THEN "sim" ELSE "raised"
         /\ UNCHANGED <<x, result>>
    ELSE RunOneStepAhead(uu, yy)

Forward(uu, yy) ==
    /\ pc = "idle"
    /\ IF mode = ONE_STEP_AHEAD
       THEN /\ path' = "one_step_ahead"
            /\ u' = uu /\ y' = yy
            /\ RunOneStepAhead(uu, yy)
       ELSE IF mode = FREE_RUN_SIMULATION
       THEN /\ path' = "free_run_simulation"
            /\ u' = uu /\ y' = yy
            /\ BeginFreeRun(uu, yy)
       \* *args is never unpacked
       ELSE /\ path' = "rejected"
            /\ pc' = "raised"
            /\ UNCHANGED <<u, y, u_delayed, y_sim, i, x, result>>
    /\ UNCHANGED <<cfgVars, modeVars, dsVars>>

\* a call model(u, y) or model(u) by the caller
ForwardCall ==
    \E uu \in InputArgs : \E yy \in RefArgs(uu) : Forward(uu, yy)

\* one iteration of the loop of free_run_simulation
SimStep ==
    /\ pc = "sim"
    /\ i < Width(u)
    /\ LET r == FreeRunStep(u, y, u_delayed.val, y_sim, i) IN
       /\ x' = r.x
       /\ y_sim' = r.ys
       /\ IF r.st = "ok"
          THEN i' = i + 1 /\ pc' = "sim"
          ELSE i' = i /\ pc' = "raised"
    /\ UNCHANGED <<path, u, y, u_delayed, result>>
    /\ UNCHANGED <<cfgVars, modeVars, dsVars>>

\* the loop is over: return y_sim
SimReturn ==
    /\ pc = "sim"
    /\ i >= Width(u)
    /\ result' = y_sim
    /\ pc' = "returned"
    /\ UNCHANGED <<path, u, y, u_delayed, y_sim, i, x>>
    /\ UNCHANGED <<cfgVars, modeVars, dsVars>>

\* the caller drops the arguments and the result of the finished call
Release ==
    /\ pc \in {"returned", "raised"}
    /\ pc' = "idle" /\ path' = "none"
    /\ u' = <<>> /\ y' = NoRef
    /\ u_delayed' = NoDelay /\ y_sim' = <<>> /\ i' = 0
    /\ x' = NoX /\ result' = <<>>
    /\ UNCHANGED <<cfgVars, modeVars, dsVars>>

Next ==
    \/ \E md \in ModeArgs : SetMode(md)
    \/ ForwardCall
    \/ SimStep
    \/ SimReturn
    \/ Release

Spec == Init /\ [][Next]_vars

----------------------------------------------------------------------------
(* ChenDataset (data/chen_example.py).  A generated array is modelled by   *)
(* its length and by which random draw each entry carries, not by the      *)
(* drawn values.                                                           *)

NRep == 5

\* _generate_random_input(n, nrep): n // nrep draws, each repeated nrep times
GenerateRandomInput(n, nrep) ==
    LET m == nrep * (n \div nrep) IN
    IF m = 0 THEN <<>> ELSE [j \in 1..m |-> ((j - 1) \div nrep) + 1]

\* _simulate_system(u, sd_v, sd_w): one output sample per input sample
SimulateSystem(uflat) ==
    IF Len(uflat) = 0 THEN <<>> ELSE [k \in 1..Len(uflat) |-> k]

\* numpy reshape(nb, 1, sl): needs exactly nb * sl entries
Reshape(flat, nb, sl) ==
    IF Len(flat) # nb * sl
    THEN [ok |-> FALSE, val |-> <<>>]
    ELSE [ok |-> TRUE,
          val |-> [b \in 1..nb |-> <<SubSeq(flat, (b - 1) * sl + 1, b * sl)>>]]

\* _gen_data
GenData(sl, nb, bo) ==
    LET total_lenght == sl * nb + bo
        u0 == GenerateRandomInput(total_lenght, NRep)
        y0 == SimulateSystem(u0)
        u1 == PySlice(u0, bo, Len(u0))
        y1 == PySlice(y0, bo, Len(y0))
        ur == Reshape(u1, nb, sl)
        yr == Reshape(y1, nb, sl)
    IN  [ok |-> ur.ok /\ yr.ok, u |-> ur.val, y |-> yr.val]

\* data_shape
data_shape == <<<<1, seq_len>>, <<1, seq_len>>>>

\* __len__
DsLen == ntotbatch

NoItem == [st |-> "none", u |-> <<>>, y |-> <<>>]

\* the arguments of ChenDataset(seq_len, ntotbatch, burnout) are chosen; the
\* DynamicModel is left alone
InitChen ==
    /\ num_inputs = 1 /\ num_outputs = 1 /\ ar = FALSE
    /\ io_delay = 0 /\ receptive_field = 0
    /\ mode = ONE_STEP_AHEAD /\ m_mode = ONE_STEP_AHEAD
    /\ last_set = ONE_STEP_AHEAD
    /\ CallIdle
    /\ seq_len \in 1..MaxSeqLen
    /\ ntotbatch \in 1..MaxTotBatch
    /\ burnout \in 0..MaxBurnout
    /\ ds_state = "args" /\ ds_u = <<>> /\ ds_y = <<>>
    /\ item = NoItem

\* ChenDataset.__init__
ChenConstruct ==
    /\ ds_state = "args"
    /\ LET d == GenData(seq_len, ntotbatch, burnout) IN
       /\ ds_state' = IF d.ok THEN "built" ELSE "raised"
       /\ ds_u' = d.u
       /\ ds_y' = d.y
    /\ UNCHANGED <<seq_len, ntotbatch, burnout, item>>
    /\ UNCHANGED <<cfgVars, modeVars, callVars>>

\* ChenDataset.__getitem__
ChenGetItem(idx) ==
    /\ ds_state = "built"
    /\ idx \in 0..(DsLen - 1)
    /\ item' = [st |-> "got", u |-> ds_u[idx + 1], y |-> ds_y[idx + 1]]
    /\ UNCHANGED <<seq_len, ntotbatch, burnout, ds_state, ds_u, ds_y>>
    /\ UNCHANGED <<cfgVars, modeVars, callVars>>

NextChen ==
    \/ ChenConstruct
    \/ \E idx \in 0..(MaxTotBatch - 1) : ChenGetItem(idx)

SpecChen == InitChen /\ [][NextChen]_vars

----------------------------------------------------------------------------
(* Properties *)

InFreeRun == path = "free_run_simulation"
InOneStep == path = "one_step_ahead"

\* the window the free run presents at 0-based step t: rf input samples
\* ending at t and rf output samples ending at t-1, zero below index 0
WindowAt(udv, ys, t) ==
    LET rf == receptive_field
        inPart == [c \in 1..Len(udv) |->
                     [k \in 1..rf |->
                        LET j == t - rf + k IN
                        IF j < 0 THEN 0 ELSE udv[c][j + 1]]]
        outPart == [c \in 1..Len(ys) |->
                      [k \in 1..rf |->
                         LET j == t - rf + k - 1 IN
                         IF j < 0 THEN 0 ELSE ys[c][j + 1]]]
    IN  inPart \o outPart

\* C1: in an autoregressive free run with rf >= 1, every position t already
\* written holds the last step of the Predictor applied to the window of
\* u_delayed[t-rf+1..t] and y_sim[t-rf..t-1] (zero below index 0), the window
\* last presented is that of the step just taken, and no later position has
\* been written yet.
C1_FreeRunWindow ==
    (InFreeRun /\ ar /\ receptive_field >= 1 /\ pc \in {"sim", "returned"}) =>
        /\ \A t \in 0..(i - 1) :
              LET p == Predict(WindowAt(u_delayed.val, y_sim, t)) IN
              /\ p.ok
              /\ \A ch \in 1..Len(y_sim) :
                    y_sim[ch][t + 1] = p.val[ch][receptive_field]
        /\ i >= 1 => /\ x.st = "passed"
                     /\ x.val = WindowAt(u_delayed.val, y_sim, i - 1)
        /\ \A t \in i..(Width(u) - 1) :
              \A ch \in 1..Len(y_sim) : y_sim[ch][t + 1] = 0

C1_Witness ==
    /\ InFreeRun /\ ar /\ pc = "returned"
    /\ receptive_field >= 1
    /\ i > receptive_field
    /\ u_delayed.val[1][i] # 0
    /\ y_sim[1][1] # 0

\* C2: the outcome of a free run is the same whatever reference sequence is
\* passed (None included), and an iteration reads only positions of the
\* output buffer that the simulation has already written.
C2_FreeRunIgnoresReference ==
    /\ (InFreeRun /\ pc \in {"returned", "raised"}) =>
          \A y2 \in RefArgs(u) :
             LET r == FreeRunSimulation(u, y2) IN
             /\ r.st = (IF pc = "returned" THEN "ok" ELSE "raised")
             /\ pc = "returned" => r.val = result
    /\ (InFreeRun /\ ar /\ pc = "sim") =>
          \A j \in YSimReadIdx(y_sim, i) : j < i

C2_Witness ==
    /\ InFreeRun /\ ar /\ pc = "returned"
    /\ receptive_field >= 1
    /\ Width(u) >= 2
    /\ y.present
    /\ \E t \in 1..Width(u) : y.val[1][t] # result[1][t]

\* C3: with io_delay = d > 0 the delayed sequence is 0 at every t < d and
\* u[t-d] at every t >= d: d zeros followed by u without its last d samples.
C3_PositiveDelay ==
    (u_delayed.st # "none" /\ io_delay > 0) =>
        /\ u_delayed.st = "ok"
        /\ Len(u_delayed.val) = Len(u)
        /\ \A ch \in 1..Len(u) : \A t \in 0..(Width(u) - 1) :
              u_delayed.val[ch][t + 1] =
                 (IF t < io_delay THEN 0 ELSE u[ch][t - io_delay + 1])
        /\ \A ch \in 1..Len(u) :
              u_delayed.val[ch] =
                 Zeros(1, io_delay)[1] \o SubSeq(u[ch], 1, Width(u) - io_delay)

C3_Witness ==
    /\ u_delayed.st = "ok"
    /\ io_delay = 1
    /\ Width(u) >= 2
    /\ u[1][1] # 0

\* C4: with io_delay < 0 the call completes, position t holds u[t+|d|] for
\* t <= L-1-|d| and the last |d| positions hold zero.
C4_NegativeDelay ==
    (u_delayed.st # "none" /\ io_delay < 0) =>
        /\ u_delayed.st = "ok"
        /\ \A ch \in 1..Len(u) : \A t \in 0..(Width(u) - 1) :
              u_delayed.val[ch][t + 1] =
                 (IF t <= Width(u) - 1 + io_delay
                  THEN u[ch][t - io_delay + 1] ELSE 0)

\* C5: for every io_delay the delayed sequence is produced without error and
\* has the shape of the input; it is all zero when |io_delay| >= L.
C5_DelayKeepsShape ==
    u_delayed.st # "none" =>
        /\ u_delayed.st = "ok"
        /\ Len(u_delayed.val) = Len(u)
        /\ Width(u_delayed.val) = Width(u)
        /\ (io_delay >= Width(u) \/ -io_delay >= Width(u)) =>
              u_delayed.val = Zeros(Len(u), Width(u))

\* C6: in an autoregressive one-step-ahead call the feature at step t is the
\* delayed input at t and the reference at t-1 (zero at the first step), and
\* the prediction at t is the same for every reference that agrees with the
\* given one before t.
C6_NoLookAhead ==
    (InOneStep /\ ar /\ pc = "returned") =>
        /\ x.st = "passed"
        /\ \A t \in 1..Width(u) :
              /\ \A c \in 1..num_inputs : x.val[c][t] = u_delayed.val[c][t]
              /\ \A o \in 1..num_outputs :
                    x.val[num_inputs + o][t] =
                       (IF t = 1 THEN 0 ELSE y.val[o][t - 1])
        /\ \A y2 \in RefArgs(u) : \A t \in 1..Width(u) :
              (/\ y2.present
               /\ \A o \in 1..num_outputs : \A s \in 1..(t - 1) :
                     y2.val[o][s] = y.val[o][s])
              => LET r == OneStepAhead(u, y2) IN
                 /\ r.st = "ok"
                 /\ \A o \in 1..num_outputs : r.val[o][t] = result[o][t]

C6_Witness ==
    /\ InOneStep /\ ar /\ pc = "returned"
    /\ receptive_field >= 1
    /\ Width(u) >= 2
    /\ y.val[1][Width(u)] # 0
    /\ x.val[num_inputs + 1][Width(u)] # y.val[1][Width(u)]

\* C7: the Core's mode and the Predictor's mode flag both equal the argument
\* of the latest set_mode (ONE_STEP_AHEAD before any), an inference call
\* takes the path of that mode, and a mode outside RunMode makes the call
\* raise without running either path.
C7_ModeAgreement ==
    /\ mode = last_set
    /\ m_mode = last_set
    /\ pc # "idle" =>
          path = (IF mode = ONE_STEP_AHEAD THEN "one_step_ahead"
                  ELSE IF mode = FREE_RUN_SIMULATION THEN "free_run_simulation"
                  ELSE "rejected")
    /\ path = "rejected" =>
          pc = "raised" /\ x.st = "none" /\ u_delayed.st = "none"

C7_Witness ==
    /\ mode = FREE_RUN_SIMULATION
    /\ m_mode = FREE_RUN_SIMULATION
    /\ InFreeRun
    /\ pc = "returned"

\* C8: an autoregressive free run with receptive field 0 completes every
\* step without error and still presents the delayed input sample to the
\* Predictor (a window that is not empty).  Stated for a configuration with
\* as many outputs as inputs and a delay that is not negative.
C8_ZeroReceptiveField ==
    (/\ InFreeRun /\ ar /\ receptive_field = 0
     /\ num_inputs = num_outputs /\ io_delay >= 0) =>
        /\ pc # "raised"
        /\ x.st = "passed" => Width(x.val) >= 1

\* C9: constructing the dataset succeeds for every seq_len >= 1,
\* ntotbatch >= 1 and burnout >= 0, and it then holds ntotbatch items whose
\* input and output both have the declared shape (1, seq_len).
C9_DatasetShape ==
    ds_state \in {"built", "raised"} =>
        /\ ds_state = "built"
        /\ Len(ds_u) = DsLen /\ Len(ds_y) = DsLen
        /\ \A b \in 1..DsLen :
              /\ <<Len(ds_u[b]), Len(ds_u[b][1])>> = data_shape[1]
              /\ <<Len(ds_y[b]), Len(ds_y[b][1])>> = data_shape[2]

\* C10: whatever the Core passes to the Predictor has num_model_inputs
\* channels, and the output buffer of the free run has num_outputs channels.
C10_ChannelCount ==
    /\ x.st = "passed" => Len(x.val) = num_model_inputs
    /\ (InFreeRun /\ ar /\ pc = "sim") => Len(y_sim) = num_outputs

====
